---- MODULE Spec2Model ----
(***************************************************************************)
(* Settlement-offer negotiation in the Debt Collection Portal.            *)
(*                                                                         *)
(* src/unnamed/part_000 holds three variants of the portal.  The default  *)
(* specification Spec models the third one (lines 2309-3479), the only    *)
(* variant with the send and customer-response screens.                   *)
(*                                                                         *)
(* Conventions                                                             *)
(*  - st.session_state is the state: loans, offers, communications and    *)
(*    responses.                                                          *)
(*  - A supervisor's Reject (or Send Back) takes two reruns: the button   *)
(*    opens a comment box (the key show_reject_modal_<offer_id>), and     *)
(*    "Confirm Rejection" submits it.  The two are one action here, and   *)
(*    the key, which nothing else reads, is not kept; Cancel closes the   *)
(*    box and changes nothing else.                                       *)
(*  - Optional values (a key that may be absent from session_state, an    *)
(*    Optional[datetime] field) are sequences of length 0 or 1.           *)
(*  - "OFFER_%03d" % n is written n: the format is injective.             *)
(*  - Dates are whole days, day 0 being the day of start-up.  In Spec     *)
(*    everything happens on day 0; in TimedSpec Tick lets a day pass      *)
(*    between two reruns.                                                 *)
(*  - Text is a sequence of tokens, " " being white space.                *)
(*  - Money is exact: balances are multiples of 100.                      *)
(*  - The page router (main) of the third variant is not in the source.   *)
(*    The navigation keys of session_state (current_page,                 *)
(*    selected_loan_id, current_offer_id) are the router's: what a        *)
(*    handler finds in them on entry is an input of its action, chosen    *)
(*    by the caller, and every value is tried: no key, the id of a        *)
(*    stored loan or offer (the one render_create_offer leaves in         *)
(*    current_offer_id among them), an id that is not stored.             *)
(*  - shown records what the last handler displayed (st.error,            *)
(*    st.warning, st.success): the observable outcome of the action.      *)
(*  - approved and spawned are history variables: the offers a            *)
(*    supervisor approved, and the <<offer, new offer>> pairs of the      *)
(*    counter-offer responses.                                            *)
(***************************************************************************)
EXTENDS Integers, Sequences, FiniteSets, TLC

VARIABLES loans, offers, communications, responses, now, shown, approved,
          spawned

vars == <<loans, offers, communications, responses, now, shown, approved,
          spawned>>

(***************************************************************************)
(* Bounds of the model                                                     *)
(***************************************************************************)
\* forms submitted with success (offers created, offers sent, responses
\* recorded) after start-up
MaxSubmits == 2
\* days that pass
MaxTime == 1
\* offers created by the create form alone
MaxCreated == 1
\* modals submitted with success after start-up in the second variant
MaxModalSubmits == 2
\* forms submitted with success after start-up while days pass
MaxClockSubmits == 2
\* forms submitted with success in the life of one new offer
MaxLifeSubmits == 3
\* forms submitted with success with the sliders at their ends
MaxRangeSubmits == 2

(***************************************************************************)
(* Program constants                                                       *)
(***************************************************************************)
SecuredMin == 40
UnsecuredMin == 35
SecuredMax == 70
UnsecuredMax == 65
SliderMin == 20
\* a faulty slider that runs past 100
SliderMaxWide == 100 + 50
SliderMax == 100
MaxDueDays == 90

\* class OfferStatus
DRAFT == "Draft"
SENT == "Sent"
ACCEPTED == "Accepted"
REJECTED == "Rejected"
COUNTER_OFFER == "Counter Offer"
PENDING_APPROVAL == "Pending Approval"
REJECTED_BY_SUPERVISOR == "Rejected by Supervisor"
OfferStatus ==
    {DRAFT, SENT, ACCEPTED, REJECTED, COUNTER_OFFER, PENDING_APPROVAL,
     REJECTED_BY_SUPERVISOR}

(***************************************************************************)
(* Inputs                                                                  *)
(***************************************************************************)
LoanIds == {1, 2}
\* slider positions tried in Spec: each is inside the band of one kind of
\* loan, on its edge, and outside the band of the other kind
PctInputs == {35, 70}
CounterPctInputs == {70}
\* slider positions tried in CreateSpec: both band edges of both kinds of
\* loan, and the slider's own ends
WidePctInputs == {20, 34, 35, 39, 40, 65, 66, 70, 71, 100}
DueInputs == {45}
\* both ends of the date picker's range
WideDueInputs == {0, 90}
NotesInputs == {<<>>, <<"x">>}
TextInputs == {<<>>, <<" ">>, <<"x">>, <<" ", "x", " ">>}
CommentInputs == {<<>>, <<" ">>, <<"x">>}
ReasonInputs == {<<"x">>}
CounterDueInputs == {30}
ResponseTypes == {"Accepted", "Rejected", "Counter-offer"}
\* both ends of the percentage sliders
SliderEnds == {SliderMin, SliderMax}
\* the inputs tried while days pass
ClockPctInputs == {50}
ClockNotesInputs == {<<"x">>}

None == <<>>
Some(v) == <<v>>
\* the loan a caller may select, or none
LoanInputs == {None} \cup {Some(l) : l \in LoanIds}

(***************************************************************************)
(* Pure helpers                                                            *)
(***************************************************************************)
RECURSIVE LStrip(_)
LStrip(s) == IF s # <<>> /\ Head(s) = " " THEN LStrip(Tail(s)) ELSE s

RECURSIVE RStrip(_)
RStrip(s) ==
    IF s # <<>> /\ s[Len(s)] = " " THEN RStrip(SubSeq(s, 1, Len(s) - 1)) ELSE s

\* str.strip()
Strip(s) == RStrip(LStrip(s))

\* get_loan_by_id
get_loan_by_id(loan_id) == loans[loan_id]

\* a faulty lookup that falls back on the newest offer
FindOfferOrLast(id) ==
    IF \E i \in 1..Len(offers) : offers[i].offer_id = id
    THEN CHOOSE i \in 1..Len(offers) : offers[i].offer_id = id
    ELSE Len(offers)

\* next((o for o in offers if o.offer_id == id), None): the index of the
\* first match, 0 for None
FindOffer(id) ==
    IF \E i \in 1..Len(offers) : offers[i].offer_id = id
    THEN CHOOSE i \in 1..Len(offers) :
            /\ offers[i].offer_id = id
            /\ \A j \in 1..(i - 1) : offers[j].offer_id # id
    ELSE 0

RECURSIVE Reverse(_)
Reverse(s) == IF s = <<>> THEN <<>> ELSE Append(Reverse(Tail(s)), Head(s))

\* a faulty listing that returns the newest offer first
get_offers_newest_first(loan_id) ==
    Reverse(SelectSeq(offers, LAMBDA o : o.loan_id = loan_id))

\* get_offers_by_loan_id
get_offers_by_loan_id(loan_id) ==
    SelectSeq(offers, LAMBDA o : o.loan_id = loan_id)

min_percentage(loan) == IF loan.is_secured THEN SecuredMin ELSE UnsecuredMin
max_percentage(loan) == IF loan.is_secured THEN SecuredMax ELSE UnsecuredMax

is_within_policy(loan, pct) ==
    min_percentage(loan) <= pct /\ pct <= max_percentage(loan)

\* a faulty amount that forgets the division by 100
settlement_amount_undivided(loan, pct) == loan.current_balance * pct

\* loan.current_balance * (settlement_percentage / 100)
settlement_amount(loan, pct) == (loan.current_balance * pct) \div 100

\* a faulty id that forgets the + 1
NewOfferIdStale == Len(offers)

\* f"OFFER_{len(st.session_state.offers)+1:03d}"
NewOfferId == Len(offers) + 1

\* a faulty store that puts the newest offer first
StoreOfferFirst(store, offer) == <<offer>> \o store

\* st.session_state.offers.append(offer)
StoreOffer(store, offer) == Append(store, offer)

Show(op, args, msg) == [op |-> op, args |-> args, msg |-> msg]

\* offer ids a caller may name: every id in the store, one that is not, or
\* none (the key is absent from session_state)
OfferIdInputs == {None} \cup {Some(id) : id \in 1..(Len(offers) + 1)}

(***************************************************************************)
(* Initial state: initialize_session_state                                 *)
(***************************************************************************)
\* sample data tried: np.random.uniform(40, 70) can leave the band of an
\* unsecured loan
SamplePcts == <<50, 68>>
SampleStatusInputs ==
    {<<DRAFT, COUNTER_OFFER>>, <<SENT, PENDING_APPROVAL>>,
     <<ACCEPTED, REJECTED>>, <<REJECTED_BY_SUPERVISOR, DRAFT>>}
SampleDueDays == 89
SampleAge == 1
SampleNotes ==
    <<"Customer showing financial hardship. Settlement within policy guidelines.">>
LoanBalance(loan_id) == 10000 * loan_id

\* generate_sample_loans: is_secured and the balance are drawn at random;
\* here the first loan is secured and the second is not
SampleLoans ==
    [l \in LoanIds |->
        [loan_id |-> l, current_balance |-> LoanBalance(l),
         is_secured |-> (l = 1)]]

\* generate_sample_offers: one offer for each of the first loans, its
\* percentage, status, due date and (back-dated) creation date drawn at random
SampleOffer(i, loan, pct, status, due, age) ==
    [offer_id |-> i,
     loan_id |-> loan.loan_id,
     agent_id |-> "agent_001",
     settlement_percentage |-> pct,
     settlement_amount |-> (loan.current_balance * pct) \div 100,
     due_date |-> 0 + due,
     status |-> status,
     justification_notes |-> SampleNotes,
     created_date |-> 0 - age,
     sent_date |-> None,
     response_date |-> None,
     supervisor_comments |-> <<>>]

NumSamples == Cardinality(LoanIds)

\* the forms submitted with success since start-up: a counter-offer
\* response adds a response and an offer
Submits ==
    (Len(offers) - NumSamples) + Len(communications) + Len(responses)
    - Cardinality({r \in 1..Len(responses) :
                      responses[r].response_type = "Counter-offer"})

Init ==
    /\ loans = SampleLoans
    /\ \E status \in SampleStatusInputs :
          offers = [i \in 1..NumSamples |->
                      SampleOffer(i, loans[i], SamplePcts[i], status[i],
                                  SampleDueDays, SampleAge)]
    /\ communications = <<>>
    /\ responses = <<>>
    /\ now = 0
    /\ shown = Show("init", <<>>, "")
    /\ approved = {}
    /\ spawned = {}

(***************************************************************************)
(* A day passes                                                            *)
(***************************************************************************)
Tick ==
    /\ now < MaxTime
    /\ now' = now + 1
    /\ UNCHANGED <<loans, offers, communications, responses, shown, approved,
                   spawned>>

(***************************************************************************)
(* render_create_offer: the form is submitted for the loan the caller      *)
(* selected, with the slider at pct, the date picker at now + due and the  *)
(* text area holding notes                                                 *)
(***************************************************************************)
NewOffer(loan, pct, due, notes) ==
    [offer_id |-> NewOfferId,
     loan_id |-> loan.loan_id,
     agent_id |-> "agent_001",
     settlement_percentage |-> pct,
     settlement_amount |-> settlement_amount(loan, pct),
     due_date |-> now + due,
     status |-> IF ~is_within_policy(loan, pct) THEN PENDING_APPROVAL ELSE DRAFT,
     justification_notes |-> notes,
     created_date |-> now,
     sent_date |-> None,
     response_date |-> None,
     supervisor_comments |-> <<>>]

\* a faulty validation that tests the notes without stripping them
CreateErrorsNoStrip(loan, pct, due, notes) ==
    (IF ~is_within_policy(loan, pct) /\ notes = <<>>
     THEN <<"Justification notes are required">> ELSE <<>>)
    \o (IF now + due > now + MaxDueDays
        THEN <<"Due date cannot be more than 90 days from today">> ELSE <<>>)

\* the form's validation: the list of errors
CreateErrors(loan, pct, due, notes) ==
    (IF ~is_within_policy(loan, pct) /\ Strip(notes) = <<>>
     THEN <<"Justification notes are required">> ELSE <<>>)
    \o (IF now + due > now + MaxDueDays
        THEN <<"Due date cannot be more than 90 days from today">> ELSE <<>>)

render_create_offer(sel, pct, due, notes) ==
    /\ UNCHANGED <<loans, communications, responses, now, approved, spawned>>
    /\ IF sel = None
       THEN /\ shown' = Show("create_offer", <<sel, pct, notes>>,
                             "No loan selected")
            /\ UNCHANGED offers
       ELSE LET loan == get_loan_by_id(sel[1])
                errors == CreateErrors(loan, pct, due, notes)
            IN IF errors # <<>>
               THEN /\ shown' = Show("create_offer", <<sel, pct, notes>>,
                                     errors[1])
                    /\ UNCHANGED offers
               ELSE /\ offers' = StoreOffer(offers, NewOffer(loan, pct, due, notes))
                    /\ shown' = Show("create_offer", <<sel, pct, notes>>,
                                     IF ~is_within_policy(loan, pct)
                                     THEN "Offer created and sent for supervisor approval!"
                                     ELSE "Offer created successfully!")

(***************************************************************************)
(* render_send_offer: the page is opened on the offer the caller named     *)
(* and, when the form is rendered, it is submitted                         *)
(***************************************************************************)
NewCommunication(offer) ==
    [communication_id |-> Len(communications) + 1,
     loan_id |-> get_loan_by_id(offer.loan_id).loan_id,
     offer_id |-> offer.offer_id,
     sent_date |-> now,
     delivery_status |-> "Delivered"]

\* offer.status = OfferStatus.SENT; offer.sent_date = datetime.now()
MarkSent(offer) == [offer EXCEPT !.status = SENT, !.sent_date = Some(now)]

\* the guard in front of the send form
SendBlocked(offer) == offer.status = PENDING_APPROVAL

render_send_offer(cur) ==
    /\ UNCHANGED <<loans, responses, now, approved, spawned>>
    /\ IF cur = None
       THEN /\ shown' = Show("send_offer", cur, "No offer selected")
            /\ UNCHANGED <<offers, communications>>
       ELSE LET i == FindOffer(cur[1])
            IN IF i = 0
               THEN /\ shown' = Show("send_offer", cur, "Offer not found")
                    /\ UNCHANGED <<offers, communications>>
               ELSE IF SendBlocked(offers[i])
               THEN /\ shown' = Show("send_offer", cur, "pending supervisor approval")
                    /\ UNCHANGED <<offers, communications>>
               ELSE /\ communications' =
                          Append(communications, NewCommunication(offers[i]))
                    /\ offers' = [offers EXCEPT ![i] = MarkSent(offers[i])]
                    /\ shown' = Show("send_offer", cur, "Offer sent successfully")

(***************************************************************************)
(* render_customer_response: the page is opened on the offer the caller    *)
(* named and the response form is submitted                                *)
(***************************************************************************)
\* the counter-offer slider is built with value = int(pct * 1.2), which
\* must lie within the slider's range for the form to render
CounterSliderDefault(offer) == (offer.settlement_percentage * 12) \div 10

CounterFormRenders(offer) ==
    /\ SliderMin <= CounterSliderDefault(offer)
    /\ CounterSliderDefault(offer) <= SliderMax

NewResponse(offer, response_type, reason, cpct, cdue, loan) ==
    [response_id |-> Len(responses) + 1,
     offer_id |-> offer.offer_id,
     response_type |-> response_type,
     reason |-> IF response_type = "Rejected" THEN reason ELSE <<>>,
     counter_percentage |->
        IF response_type = "Counter-offer" THEN Some(cpct) ELSE None,
     counter_amount |->
        IF response_type = "Counter-offer"
        THEN Some(settlement_amount(loan, cpct)) ELSE None,
     counter_due_date |->
        IF response_type = "Counter-offer" THEN Some(now + cdue) ELSE None,
     response_date |-> now]

\* the status the response gives the offer
ResponseStatus(response_type) ==
    CASE response_type = "Accepted" -> ACCEPTED
      [] response_type = "Rejected" -> REJECTED
      [] response_type = "Counter-offer" -> COUNTER_OFFER

\* a faulty update that also clears the amount of an offer the customer
\* rejected
MarkRespondedClearsAmount(offer, response_type) ==
    [offer EXCEPT !.status = ResponseStatus(response_type),
                  !.response_date = Some(now),
                  !.settlement_amount =
                      IF response_type = "Rejected" THEN 0 ELSE @]

\* offer.status = ...; offer.response_date = datetime.now()
MarkResponded(offer, response_type) ==
    [offer EXCEPT !.status = ResponseStatus(response_type),
                  !.response_date = Some(now)]

\* the status of the offer created from a counter-offer
CounterOfferStatus(loan, cpct) == DRAFT

\* a faulty counter-offer that repeats the terms of the original offer
CounterOfferAtOriginalTerms(offer, loan, cpct, cdue) ==
    [offer EXCEPT !.offer_id = NewOfferId,
                  !.due_date = now + cdue,
                  !.status = CounterOfferStatus(loan, cpct),
                  !.created_date = now,
                  !.sent_date = None,
                  !.response_date = None,
                  !.supervisor_comments = <<>>]

\* the offer created with the customer's terms
CounterOffer(offer, loan, cpct, cdue) ==
    [offer_id |-> NewOfferId,
     loan_id |-> loan.loan_id,
     agent_id |-> "agent_001",
     settlement_percentage |-> cpct,
     settlement_amount |-> settlement_amount(loan, cpct),
     due_date |-> now + cdue,
     status |-> CounterOfferStatus(loan, cpct),
     justification_notes |->
        <<"Counter-offer from customer. Original offer: ",
          offer.settlement_percentage>>,
     created_date |-> now,
     sent_date |-> None,
     response_date |-> None,
     supervisor_comments |-> <<>>]

render_customer_response(cur, response_type, reason, cpct, cdue) ==
    /\ UNCHANGED <<loans, communications, now, approved>>
    /\ IF cur = None
       THEN /\ shown' = Show("customer_response", cur, "No offer selected")
            /\ UNCHANGED <<offers, responses, spawned>>
       ELSE LET i == FindOffer(cur[1])
            IN IF i = 0
               THEN /\ shown' = Show("customer_response", cur, "Offer not found")
                    /\ UNCHANGED <<offers, responses, spawned>>
               ELSE LET offer == offers[i]
                        loan == get_loan_by_id(offer.loan_id)
                        marked == [offers EXCEPT
                                     ![i] = MarkResponded(offer, response_type)]
                    IN /\ response_type = "Counter-offer" =>
                             CounterFormRenders(offer)
                       /\ responses' =
                             Append(responses,
                                    NewResponse(offer, response_type, reason,
                                                cpct, cdue, loan))
                       /\ offers' =
                             IF response_type = "Counter-offer"
                             THEN StoreOffer(marked,
                                             CounterOffer(offer, loan, cpct, cdue))
                             ELSE marked
                       /\ spawned' =
                             IF response_type = "Counter-offer"
                             THEN spawned \cup {<<offer.offer_id, NewOfferId>>}
                             ELSE spawned
                       /\ shown' = Show("customer_response", cur, response_type)

(***************************************************************************)
(* render_supervisor_review: the buttons shown for each pending offer      *)
(***************************************************************************)
\* a faulty filter that lists every offer for review
IsListed(i) == i \in 1..Len(offers)

\* pending_offers
IsPending(i) == i \in 1..Len(offers) /\ offers[i].status = PENDING_APPROVAL

\* a faulty decision that marks the loans of the store as secured
SupervisorFrameSecures ==
    /\ loans' = [l \in DOMAIN loans |-> [loans[l] EXCEPT !.is_secured = TRUE]]
    /\ UNCHANGED <<communications, responses, now, spawned>>

SupervisorFrame ==
    UNCHANGED <<loans, communications, responses, now, spawned>>

\* a faulty Approve that leaves a note in the comments
ApprovedWithNote(offer) ==
    [offer EXCEPT !.status = DRAFT, !.supervisor_comments = <<"Approved">>]

\* offer.status = OfferStatus.DRAFT  # Ready to be sent
Approved(offer) == [offer EXCEPT !.status = DRAFT]

\* a faulty Approve that moves the offer one stage on, whatever its stage
ApproveClickedAdvances(store, i) ==
    [store EXCEPT ![i].status =
        CASE @ = PENDING_APPROVAL -> DRAFT
          [] @ = DRAFT -> SENT
          [] OTHER -> @]

\* the store after a rerun that carries a click on approve_<offer_id>: the
\* button is rendered, and the click has an effect, only while the offer
\* is among pending_offers
ApproveClicked(store, i) ==
    IF store[i].status = PENDING_APPROVAL
    THEN [store EXCEPT ![i] = Approved(store[i])]
    ELSE store

\* a click on Approve; one that arrives when the offer is no longer
\* pending finds no button and the rerun shows nothing about it
Approve(i) ==
    /\ i \in 1..Len(offers)
    /\ offers' = ApproveClicked(offers, i)
    /\ IF IsPending(i)
       THEN /\ approved' = approved \cup {offers[i].offer_id}
            /\ shown' = Show("supervisor_review", Some(offers[i].offer_id), "Offer approved!")
       ELSE UNCHANGED <<approved, shown>>
    /\ SupervisorFrame

\* the "Confirm Rejection" branch
Rejected(offer, comments) ==
    [offer EXCEPT !.status = REJECTED_BY_SUPERVISOR,
                  !.supervisor_comments = comments]

\* whether "Confirm Rejection" goes through
RejectionAccepted(comments) == Strip(comments) # <<>>

Reject(i, comments) ==
    /\ IsPending(i)
    /\ IF RejectionAccepted(comments)
       THEN /\ offers' = [offers EXCEPT ![i] = Rejected(offers[i], comments)]
            /\ shown' = Show("supervisor_review", Some(offers[i].offer_id), "Offer rejected by supervisor.")
       ELSE /\ shown' = Show("supervisor_review", Some(offers[i].offer_id),
                             "Comments are required for rejection.")
            /\ UNCHANGED offers
    /\ UNCHANGED approved
    /\ SupervisorFrame

\* the "Send Back to Agent" branch
SentBack(offer, comments) ==
    [offer EXCEPT !.status = DRAFT, !.supervisor_comments = comments]

SendBack(i, comments) ==
    /\ IsPending(i)
    /\ offers' = [offers EXCEPT ![i] = SentBack(offers[i], comments)]
    /\ shown' = Show("supervisor_review", Some(offers[i].offer_id), "Offer sent back to agent for revision.")
    /\ UNCHANGED approved
    /\ SupervisorFrame

(***************************************************************************)
(* The portal                                                              *)
(***************************************************************************)
CreateOffer ==
    /\ Submits < MaxSubmits
    /\ \E sel \in LoanInputs, pct \in PctInputs,
          due \in DueInputs, notes \in NotesInputs :
           render_create_offer(sel, pct, due, notes)

Send ==
    /\ Submits < MaxSubmits
    /\ \E cur \in OfferIdInputs :
           render_send_offer(cur)

RecordResponse ==
    /\ Submits < MaxSubmits
    /\ \E cur \in OfferIdInputs,
          response_type \in ResponseTypes, reason \in ReasonInputs,
          cpct \in CounterPctInputs, cdue \in CounterDueInputs :
           render_customer_response(cur, response_type, reason, cpct, cdue)

SupervisorReview ==
    \E i \in 1..Len(offers) :
        \/ Approve(i)
        \/ \E comments \in CommentInputs :
              \/ Reject(i, comments)
              \/ SendBack(i, comments)

Next ==
    \/ CreateOffer
    \/ Send
    \/ RecordResponse
    \/ SupervisorReview

Spec == Init /\ [][Next]_vars

\* the portal with days passing
TimedNext == Next \/ Tick

TimedSpec == Init /\ [][TimedNext]_vars

(***************************************************************************)
(* The create form alone, over every band edge and every kind of notes     *)
(***************************************************************************)
CreateWide ==
    /\ Len(offers) < NumSamples + MaxCreated
    /\ \E sel \in LoanInputs, pct \in WidePctInputs,
          due \in WideDueInputs, notes \in TextInputs :
           render_create_offer(sel, pct, due, notes)

CreateSpec == Init /\ [][CreateWide]_vars

(***************************************************************************)
(* The second variant of the portal in the source: offers are created in   *)
(* a modal of the loan view, which checks no policy band, and the          *)
(* supervisor panel approves and rejects with one click.  Its offers       *)
(* carry two more fields.                                                  *)
(***************************************************************************)
EXPIRED == "Expired"
CANCELLED == "Cancelled"
EnhancedOfferStatus == OfferStatus \cup {EXPIRED, CANCELLED}

\* np.random.uniform(30, 80) leaves the band of either kind of loan
EnhancedSamplePcts == <<30, 80>>
EnhancedSampleStatusInputs ==
    {<<DRAFT, PENDING_APPROVAL>>, <<SENT, EXPIRED>>, <<CANCELLED, ACCEPTED>>,
     <<PENDING_APPROVAL, COUNTER_OFFER>>, <<REJECTED, REJECTED_BY_SUPERVISOR>>}
EnhancedSampleNotes ==
    <<"Settlement offer based on customer financial analysis. Risk profile considered.">>
EnhancedSampleExpiry == 119
ModalPctInputs == {35, 70}
\* the modal's date picker has a minimum and no maximum
ModalDueInputs == {30, 120}
ModalExpiryInputs == {60}
ModalTermsInputs == {"Lump sum"}
ModalButtons == {"Create Offer", "Create & Send", "Cancel"}
MessageInputs == {<<"x">>}

\* generate_enhanced_offers
generate_enhanced_offers(status) ==
    [i \in 1..NumSamples |->
        [offer_id |-> i,
         loan_id |-> SampleLoans[i].loan_id,
         agent_id |-> "agent_001",
         settlement_percentage |-> EnhancedSamplePcts[i],
         settlement_amount |->
            (SampleLoans[i].current_balance * EnhancedSamplePcts[i]) \div 100,
         due_date |-> 0 + SampleDueDays,
         status |-> status[i],
         justification_notes |-> EnhancedSampleNotes,
         created_date |-> 0 - SampleAge,
         sent_date |-> None,
         response_date |-> None,
         supervisor_comments |-> <<>>,
         expiry_date |-> Some(0 + EnhancedSampleExpiry),
         payment_terms |-> "Lump sum"]]

\* generate_sample_communications: one message for each of the first offers
generate_sample_communications(sample_offers) ==
    [i \in 1..Len(sample_offers) |->
        [communication_id |-> i,
         loan_id |-> sample_offers[i].loan_id,
         offer_id |-> Some(sample_offers[i].offer_id),
         sent_date |-> 0 - SampleAge,
         delivery_status |-> "Delivered"]]

EnhancedInit ==
    /\ loans = SampleLoans
    /\ \E status \in EnhancedSampleStatusInputs :
          offers = generate_enhanced_offers(status)
    /\ communications = generate_sample_communications(offers)
    /\ responses = <<>>
    /\ now = 0
    /\ shown = Show("init", <<>>, "")
    /\ approved = {}
    /\ spawned = {}

\* the modals submitted with success since start-up
EnhancedSubmits ==
    (Len(offers) - NumSamples) + (Len(communications) - NumSamples)

\* the Offer either button of the modal builds
ModalOffer(loan_id, button, pct, due, expiry, justification, terms) ==
    [offer_id |-> NewOfferId,
     loan_id |-> loan_id,
     agent_id |-> "agent_001",
     settlement_percentage |-> pct,
     settlement_amount |-> settlement_amount(get_loan_by_id(loan_id), pct),
     due_date |-> now + due,
     status |-> IF button = "Create & Send" THEN SENT ELSE DRAFT,
     justification_notes |-> justification,
     created_date |-> now,
     sent_date |-> IF button = "Create & Send" THEN Some(now) ELSE None,
     response_date |-> None,
     supervisor_comments |-> <<>>,
     expiry_date |-> Some(now + expiry),
     payment_terms |-> terms]

\* the modal opened from the view of loan loan_id, and one of its buttons
render_create_offer_modal(loan_id, button, pct, due, expiry, justification, terms) ==
    /\ UNCHANGED <<loans, communications, responses, now, approved, spawned>>
    /\ IF button = "Cancel"
       THEN /\ shown' = Show("create_offer_modal",
                             <<Some(loan_id), pct, justification>>, "")
            /\ UNCHANGED offers
       ELSE /\ offers' =
                  Append(offers,
                         ModalOffer(loan_id, button, pct, due, expiry,
                                    justification, terms))
            /\ shown' = Show("create_offer_modal",
                             <<Some(loan_id), pct, justification>>,
                             IF button = "Create & Send"
                             THEN "created and sent!"
                             ELSE "created successfully!")

\* the contact modal's "Send Message": a communication tied to no offer
render_contact_modal(loan_id, message) ==
    /\ communications' =
          Append(communications,
                 [communication_id |-> Len(communications) + 1,
                  loan_id |-> loan_id,
                  offer_id |-> None,
                  sent_date |-> now,
                  delivery_status |-> "Sent"])
    /\ shown' = Show("contact_modal", Some(loan_id), "Message sent successfully!")
    /\ UNCHANGED <<loans, offers, responses, now, approved, spawned>>

\* render_supervisor_panel, "Approve"
PanelApprove(i) ==
    /\ IsPending(i)
    /\ offers' = [offers EXCEPT ![i].status = SENT, ![i].sent_date = Some(now)]
    /\ approved' = approved \cup {offers[i].offer_id}
    /\ shown' = Show("supervisor_panel", Some(offers[i].offer_id),
                     "approved and sent!")
    /\ SupervisorFrame

\* render_supervisor_panel, "Reject"
PanelReject(i) ==
    /\ IsPending(i)
    /\ offers' = [offers EXCEPT ![i].status = REJECTED_BY_SUPERVISOR]
    /\ shown' = Show("supervisor_panel", Some(offers[i].offer_id), "rejected!")
    /\ UNCHANGED approved
    /\ SupervisorFrame

CreateOfferModal ==
    /\ EnhancedSubmits < MaxModalSubmits
    /\ \E loan_id \in LoanIds, button \in ModalButtons,
          pct \in ModalPctInputs, due \in ModalDueInputs,
          expiry \in ModalExpiryInputs, justification \in NotesInputs,
          terms \in ModalTermsInputs :
           render_create_offer_modal(loan_id, button, pct, due, expiry,
                                     justification, terms)

ContactModal ==
    /\ EnhancedSubmits < MaxModalSubmits
    /\ \E loan_id \in LoanIds, message \in MessageInputs :
           render_contact_modal(loan_id, message)

SupervisorPanel ==
    \E i \in 1..Len(offers) : PanelApprove(i) \/ PanelReject(i)

EnhancedNext ==
    \/ CreateOfferModal
    \/ ContactModal
    \/ SupervisorPanel

EnhancedSpec == EnhancedInit /\ [][EnhancedNext]_vars

(***************************************************************************)
(* Properties                                                              *)
(***************************************************************************)
\* the statuses of this portal from which the specification allows no
\* transition
TerminalStatuses == {ACCEPTED, REJECTED, REJECTED_BY_SUPERVISOR}

\* offers created through the portal, as opposed to the sample data
IsCreated(i) == i \in (NumSamples + 1)..Len(offers)

\* offers the portal created from a customer's counter-offer
IsCounterChild(i) == \E pc \in spawned : pc[2] = offers[i].offer_id

\* the children of an offer
Children(id) == {pc \in spawned : pc[1] = id}

\* whether the record of an offer names id as its parent
NamesParent(offer, id) ==
    /\ "parent_offer_id" \in DOMAIN offer
    /\ offer.parent_offer_id = id

OutOfBand(offer) ==
    ~is_within_policy(loans[offer.loan_id], offer.settlement_percentage)

\* C1: no step changes an offer that is in a terminal status: whatever is
\* aimed at it, the offer keeps every field.
C1_TerminalOffersNeverChange ==
    [][\A i \in 1..Len(offers) :
          offers[i].status \in TerminalStatuses =>
              /\ i <= Len(offers')
              /\ offers'[i] = offers[i]]_vars

\* C2: an offer that has just been created is Draft exactly when its
\* percentage is inside the band of its loan, PendingApproval exactly when
\* it is outside and its notes are not blank, and in no other status.
C2_CreatedStatusFollowsPolicy ==
    [][Len(offers') = Len(offers) + 1 =>
          LET offer == offers'[Len(offers')]
          IN /\ offer.status \in {DRAFT, PENDING_APPROVAL}
             /\ offer.status = DRAFT <=> ~OutOfBand(offer)
             /\ offer.status = PENDING_APPROVAL <=>
                   (OutOfBand(offer)
                    /\ Strip(offer.justification_notes) # <<>>)]_vars

\* C3: the create form submitted with a percentage outside the band and
\* notes that are empty or only white space reports the missing
\* justification and leaves the offers, the communications and the
\* responses as they were: no offer is stored and no id is used up.
C3_MissingJustificationIsAtomic ==
    [][(/\ shown'.op = "create_offer"
        /\ shown'.args[1] # None
        /\ ~is_within_policy(loans[shown'.args[1][1]], shown'.args[2])
        /\ Strip(shown'.args[3]) = <<>>)
       => /\ shown'.msg = "Justification notes are required"
          /\ offers' = offers
          /\ communications' = communications
          /\ responses' = responses
          /\ Len(offers') + 1 = NewOfferId]_vars

\* C3, witnessed: the form was refused for notes made of white space only
C3_WhitespaceNotesRefused ==
    /\ shown.op = "create_offer"
    /\ shown.msg = "Justification notes are required"
    /\ shown.args[3] = <<" ">>

\* C4: an offer created through the portal (by the form or from a
\* counter-offer) whose percentage is outside the band is Sent only if the
\* supervisor approved it before.
C4_OutOfBandSentOnlyAfterApprove ==
    \A i \in 1..Len(offers) :
        (IsCreated(i) /\ OutOfBand(offers[i]) /\ offers[i].status = SENT)
            => offers[i].offer_id \in approved

\* C5: an offer becomes Sent only from Draft.
C5_SentOnlyFromDraft ==
    [][\A i \in 1..Len(offers) :
          (offers'[i].status = SENT /\ offers[i].status # SENT)
              => offers[i].status = DRAFT]_vars

\* C6: a response is recorded only against a Sent offer: an offer becomes
\* Accepted, Rejected or CounterOffer only from Sent.
C6_ResponseOnlyOnSent ==
    [][\A i \in 1..Len(offers) :
          (/\ offers'[i].status \in {ACCEPTED, REJECTED, COUNTER_OFFER}
           /\ offers'[i].status # offers[i].status)
              => offers[i].status = SENT]_vars

\* C7: the offer created from a counter-offer starts in the status the
\* policy check gives its percentage: Draft inside the band,
\* PendingApproval outside.
C7_CounterChildFollowsPolicy ==
    [][\A pc \in spawned' \ spawned :
          LET child == offers'[FindOffer(pc[2])']
          IN child.status =
                 IF OutOfBand(child) THEN PENDING_APPROVAL ELSE DRAFT]_vars

\* C8: every offer a Counter response left in CounterOffer has exactly one
\* child: one offer that names it as its parent, for the same loan and
\* later in the store.
C8_CounterOfferHasOneChild ==
    \A i \in 1..Len(offers) :
        (/\ offers[i].status = COUNTER_OFFER
         /\ \E r \in 1..Len(responses) :
               /\ responses[r].offer_id = offers[i].offer_id
               /\ responses[r].response_type = "Counter-offer")
            => /\ Cardinality(Children(offers[i].offer_id)) = 1
               /\ \A pc \in Children(offers[i].offer_id) :
                     /\ FindOffer(pc[2]) > i
                     /\ offers[FindOffer(pc[2])].loan_id = offers[i].loan_id
                     /\ NamesParent(offers[FindOffer(pc[2])], pc[1])

C10_AmountIsPercentageOfBalance ==
    \A i \in 1..Len(offers) :
        (IsCreated(i) /\ ~IsCounterChild(i))
            => offers[i].settlement_amount * 100 =
                   loans[offers[i].loan_id].current_balance
                       * offers[i].settlement_percentage

\* C10, witnessed: an offer created by the form has since been sent
C10_CreatedOfferSent ==
    \E i \in 1..Len(offers) :
        /\ IsCreated(i)
        /\ ~IsCounterChild(i)
        /\ offers[i].status = SENT
        /\ offers[i].sent_date # None

\* C11: a supervisor's Reject needs a comment that is not blank: every
\* offer that a step moves to RejectedBySupervisor carries supervisor
\* comments that are not empty after stripping, and a step that shows the
\* missing-comment error leaves the offers as they were.
C11_RejectNeedsComment ==
    [][/\ \A i \in 1..Len(offers) :
            (/\ offers'[i].status = REJECTED_BY_SUPERVISOR
             /\ offers[i].status # REJECTED_BY_SUPERVISOR)
                => Strip(offers'[i].supervisor_comments) # <<>>
       /\ shown'.msg = "Comments are required for rejection."
            => offers' = offers]_vars

\* C12: a supervisor's Approve moves the pending offer to Draft: the offer
\* is not Sent, its sent_date stays unset and no communication is added.
C12_ApproveGivesDraft ==
    [][\A i \in 1..Len(offers) :
          (offers[i].offer_id \in approved' \ approved)
              => /\ offers[i].status = PENDING_APPROVAL
                 /\ offers'[i].status = DRAFT
                 /\ offers'[i].sent_date = None
                 /\ communications' = communications]_vars

\* the audit events the portal has recorded.  session_state has no key for
\* them and no handler writes one: the trail is empty in every state
AuditEvents == <<>>

\* C13: every step that creates an offer or changes the status of one
\* appends exactly one audit event, and every other step appends none;
\* the events already recorded are kept as they are.
C13_OneAuditEventPerTransition ==
    [][LET transition ==
               \/ Len(offers') # Len(offers)
               \/ \E i \in 1..Len(offers) :
                     offers'[i].status # offers[i].status
       IN /\ Len(AuditEvents') =
                Len(AuditEvents) + (IF transition THEN 1 ELSE 0)
          /\ SubSeq(AuditEvents', 1, Len(AuditEvents)) = AuditEvents]_vars

\* C14: no two offers in the store share an offer_id.
C14_OfferIdsUnique ==
    \A i, j \in 1..Len(offers) :
        offers[i].offer_id = offers[j].offer_id => i = j

\* C14, witnessed: the store holds the samples, an offer created by the
\* form and an offer created from a counter-offer
C14_FormAndCounterOffersStored ==
    /\ \E i \in 1..Len(offers) : IsCreated(i) /\ IsCounterChild(i)
    /\ \E i \in 1..Len(offers) : IsCreated(i) /\ ~IsCounterChild(i)

\* C15: the store is append-only: after every step the offers that were
\* stored are still there, at the same places and under the same ids,
\* those in a terminal status among them.
C15_StoreIsAppendOnly ==
    [][/\ Len(offers') >= Len(offers)
       /\ \A i \in 1..Len(offers) :
             /\ offers'[i].offer_id = offers[i].offer_id
             /\ offers'[i].loan_id = offers[i].loan_id]_vars

\* C15, witnessed: an offer the portal brought to a terminal status is
\* followed in the store by an offer stored later
C15_TerminalOfferFollowed ==
    \E i \in 1..Len(offers) :
        /\ offers[i].status \in TerminalStatuses
        /\ offers[i].response_date # None
        /\ \E j \in (i + 1)..Len(offers) : IsCreated(j)

(***************************************************************************)
(* The portal with days passing between reruns: the agent's three forms    *)
(* and the clock                                                           *)
(***************************************************************************)
\* the ids of the stored offers
StoredOfferIds == {offers[i].offer_id : i \in 1..Len(offers)}

ClockCreate ==
    /\ Submits < MaxClockSubmits
    /\ \E loan_id \in LoanIds, pct \in ClockPctInputs,
          due \in WideDueInputs, notes \in ClockNotesInputs :
           render_create_offer(Some(loan_id), pct, due, notes)

ClockSend ==
    /\ Submits < MaxClockSubmits
    /\ \E id \in StoredOfferIds : render_send_offer(Some(id))

ClockResponse ==
    /\ Submits < MaxClockSubmits
    /\ \E id \in StoredOfferIds,
          response_type \in ResponseTypes, reason \in ReasonInputs,
          cpct \in CounterPctInputs, cdue \in CounterDueInputs :
           render_customer_response(Some(id), response_type, reason, cpct, cdue)

ClockNext ==
    \/ ClockCreate
    \/ ClockSend
    \/ ClockResponse
    \/ Tick

ClockSpec == Init /\ [][ClockNext]_vars

\* C16: for every loan, get_offers_by_loan_id returns the offers of that
\* loan, all of them and no other, in non-decreasing order of created_date.
C16_ListByLoanOrdered ==
    \A l \in LoanIds :
        LET list == get_offers_by_loan_id(l)
        IN /\ \A k \in 1..Len(list) : list[k].loan_id = l
           /\ {list[k].offer_id : k \in 1..Len(list)} =
                 {offers[i].offer_id :
                     i \in {n \in 1..Len(offers) : offers[n].loan_id = l}}
           /\ Len(list) =
                 Cardinality({n \in 1..Len(offers) : offers[n].loan_id = l})
           /\ \A k \in 1..(Len(list) - 1) :
                 list[k].created_date <= list[k + 1].created_date

\* C16, witnessed: the list of a loan holds a back-dated sample, then an
\* offer created on a later day, then a counter-offer created later still
C16_ListSpansThreeDays ==
    \E l \in LoanIds :
        LET list == get_offers_by_loan_id(l)
        IN /\ Len(list) >= 3
           /\ list[1].created_date < list[2].created_date
           /\ list[2].created_date < list[3].created_date
           /\ \E k \in 2..3, pc \in spawned : pc[2] = list[k].offer_id

\* the responses recorded against an offer
ResponsesTo(id) == {r \in 1..Len(responses) : responses[r].offer_id = id}

\* C17: the responses hold at most one response for each offer.
C17_AtMostOneResponse ==
    \A i \in 1..Len(offers) :
        Cardinality(ResponsesTo(offers[i].offer_id)) <= 1

C20_SupervisorDecidesPendingOnly ==
    [][/\ \A i \in 1..Len(offers) :
             /\ (shown'.op = "supervisor_review"
                 /\ offers[i].status # PENDING_APPROVAL)
                    => offers'[i] = offers[i]
             /\ (/\ offers'[i].status = REJECTED_BY_SUPERVISOR
                 /\ offers[i].status # REJECTED_BY_SUPERVISOR)
                    => offers[i].status = PENDING_APPROVAL
       /\ \A i \in (NumSamples + 1)..Len(offers') :
             offers'[i].status = PENDING_APPROVAL
                => /\ ~is_within_policy(loans[offers'[i].loan_id],
                                        offers'[i].settlement_percentage)
                   /\ Strip(offers'[i].justification_notes) # <<>>]_vars

\* C20, witnessed: an offer created pending has been rejected by the
\* supervisor with a comment
C20_CreatedOfferRejected ==
    \E i \in 1..Len(offers) :
        /\ IsCreated(i)
        /\ offers[i].status = REJECTED_BY_SUPERVISOR
        /\ Strip(offers[i].supervisor_comments) # <<>>

\* C21: communications are tied to sending: a step that makes an offer
\* Sent, or stamps its sent_date, appends exactly one communication for
\* that offer and its loan, and every offer the portal created that is
\* Sent or carries a sent_date has a communication naming it.
C21_CommunicationOnlyWithSend ==
    [][/\ \A i \in 1..Len(offers') :
             (\/ i > Len(offers) /\ offers'[i].status = SENT
              \/ i <= Len(offers) /\ offers'[i].status = SENT
                                  /\ offers[i].status # SENT)
                => /\ Len(communications') = Len(communications) + 1
                   /\ communications'[Len(communications')].offer_id =
                         Some(offers'[i].offer_id)
                   /\ communications'[Len(communications')].loan_id =
                         offers'[i].loan_id
       /\ \A i \in (NumSamples + 1)..Len(offers') :
             (offers'[i].status = SENT \/ offers'[i].sent_date # None)
                => \E c \in 1..Len(communications') :
                      communications'[c].offer_id = Some(offers'[i].offer_id)]_vars

(***************************************************************************)
(* The life of the offers of one loan, with days passing: an offer inside  *)
(* the band is created, sent and answered, in whatever order the caller    *)
(* opens the pages                                                         *)
(***************************************************************************)
LifeLoanInputs == {2}

LifeCreate ==
    /\ Submits < MaxLifeSubmits
    /\ \E loan_id \in LifeLoanInputs, pct \in ClockPctInputs,
          due \in DueInputs, notes \in ClockNotesInputs :
           render_create_offer(Some(loan_id), pct, due, notes)

LifeSend ==
    /\ Submits < MaxLifeSubmits
    /\ \E id \in StoredOfferIds : render_send_offer(Some(id))

LifeResponse ==
    /\ Submits < MaxLifeSubmits
    /\ \E id \in StoredOfferIds,
          response_type \in ResponseTypes, reason \in ReasonInputs,
          cpct \in CounterPctInputs, cdue \in CounterDueInputs :
           render_customer_response(Some(id), response_type, reason, cpct, cdue)

LifeNext ==
    \/ LifeCreate
    \/ LifeSend
    \/ LifeResponse
    \/ Tick

LifeSpec == Init /\ [][LifeNext]_vars

\* the communications that name an offer
CommunicationsOf(id) ==
    {c \in 1..Len(communications) : communications[c].offer_id = id}

\* C22: the dates of an offer the portal created follow its life:
\* sent_date is set exactly when the offer has been sent, response_date is
\* set exactly when a response has been recorded and whenever the status
\* is Accepted, Rejected or CounterOffer, and when both are set
\* created_date <= sent_date <= response_date.
C22_LifecycleDatesOrdered ==
    \A i \in 1..Len(offers) :
        IsCreated(i) =>
            /\ offers[i].sent_date # None <=>
                  CommunicationsOf(offers[i].offer_id) # {}
            /\ offers[i].response_date # None <=>
                  ResponsesTo(offers[i].offer_id) # {}
            /\ offers[i].status \in {ACCEPTED, REJECTED, COUNTER_OFFER}
                  => offers[i].response_date # None
            /\ (offers[i].sent_date # None /\ offers[i].response_date # None)
                  => /\ offers[i].created_date <= offers[i].sent_date[1]
                     /\ offers[i].sent_date[1] <= offers[i].response_date[1]

\* C23: every offer the portal created that is Sent, or has been, is due
\* no later than 90 days after its creation.
C23_SentOfferDueWithinHorizon ==
    \A i \in 1..Len(offers) :
        (IsCreated(i)
         /\ (offers[i].status = SENT \/ offers[i].sent_date # None))
            => offers[i].due_date <= offers[i].created_date + MaxDueDays

C25_CommentsWrittenBySupervisorOnly ==
    [][/\ \A i \in (Len(offers) + 1)..Len(offers') :
             offers'[i].supervisor_comments = <<>>
       /\ \A i \in 1..Len(offers) :
             offers'[i].supervisor_comments # offers[i].supervisor_comments
                => /\ shown'.op = "supervisor_review"
                   /\ shown'.args = Some(offers[i].offer_id)
                   /\ shown'.msg \in {"Offer rejected by supervisor.",
                                      "Offer sent back to agent for revision."}
                   /\ offers[i].status = PENDING_APPROVAL]_vars

\* C25, witnessed: an offer was sent back with a comment, and has since
\* been sent with the comment still on it
C25_CommentedOfferSent ==
    \E i \in 1..Len(offers) :
        /\ offers[i].supervisor_comments # <<>>
        /\ offers[i].status = SENT
        /\ offers[i].sent_date # None

\* C26: the send page and the response page opened with no offer selected,
\* or on an id that is not in the store, report it and change nothing:
\* offers, communications and responses stay as they were.
C26_UnknownOfferChangesNothing ==
    [][(/\ shown'.op \in {"send_offer", "customer_response"}
        /\ \/ shown'.args = None
           \/ \A i \in 1..Len(offers) : offers[i].offer_id # shown'.args[1])
       => /\ shown'.msg = IF shown'.args = None
                          THEN "No offer selected" ELSE "Offer not found"
          /\ offers' = offers
          /\ communications' = communications
          /\ responses' = responses]_vars

\* C26, witnessed: the response page was opened on an id that is not in a
\* store that has seen an offer sent
C26_ResponseToUnknownOffer ==
    /\ shown.op = "customer_response"
    /\ shown.msg = "Offer not found"
    /\ \A i \in 1..Len(offers) : offers[i].offer_id # shown.args[1]
    /\ Len(communications) > 0

(***************************************************************************)
(* The two forms that take a percentage, with their sliders at the ends    *)
(* of the range                                                            *)
(***************************************************************************)
RangeCreate ==
    /\ Submits < MaxRangeSubmits
    /\ \E loan_id \in LoanIds, pct \in SliderEnds,
          due \in DueInputs, notes \in ClockNotesInputs :
           render_create_offer(Some(loan_id), pct, due, notes)

RangeCounter ==
    /\ Submits < MaxRangeSubmits
    /\ \E id \in StoredOfferIds, reason \in ReasonInputs,
          cpct \in SliderEnds, cdue \in CounterDueInputs :
           render_customer_response(Some(id), "Counter-offer", reason, cpct, cdue)

RangeNext ==
    \/ RangeCreate
    \/ RangeCounter

RangeSpec == Init /\ [][RangeNext]_vars

C28_LoansReadOnly ==
    [][/\ loans' = loans
       /\ \A l \in LoanIds :
             /\ min_percentage(loans'[l]) = min_percentage(loans[l])
             /\ max_percentage(loans'[l]) = max_percentage(loans[l])]_vars

\* C28, witnessed: an offer created outside the band of its loan has been
\* reviewed and approved by the supervisor, and is still outside the band
C28_CreatedOfferReviewed ==
    \E i \in 1..Len(offers) :
        /\ IsCreated(i)
        /\ offers[i].offer_id \in approved
        /\ OutOfBand(offers[i])

====
